---- MODULE Spec2Model ----
(***************************************************************************)
(* SolarScan request/worker bridge (src/server.js).                        *)
(*                                                                         *)
(* POST /scan normalizes the body, validates the coordinates, spawns one   *)
(* Python child per request, feeds it the batch on stdin, accumulates its  *)
(* stdout/stderr, and answers from the first of: the 120 s timer, the      *)
(* child's 'error' event, the child's 'close' event.                       *)
(*                                                                         *)
(* JavaScript values are records [t, v]: t is the typeof-like tag, v the   *)
(* value's text as a sequence of character tokens, so that parseFloat,     *)
(* Number(), String() and truthiness are computed from the text.           *)
(***************************************************************************)
EXTENDS Naturals, Sequences, FiniteSets

(* ---------------------------- bounds ---------------------------------- *)

\* Longest array body enumerated for a request.
MaxBatch == 2
\* Most chunks the child writes to its diagnostics stream.
MaxStderr == 1

\* Longest output text, in tokens, the extractor is given on its own.
MaxRaw == 5

(* ------------------------- JavaScript values --------------------------- *)

Undef == [t |-> "undefined", v |-> <<>>]
Null == [t |-> "null", v |-> <<>>]
True == [t |-> "boolean", v |-> <<"true">>]
False == [t |-> "boolean", v |-> <<"false">>]
Num(d) == [t |-> "number", v |-> d]
Str(s) == [t |-> "string", v |-> s]
NaN == Num(<<"NaN">>)
Infinity == Num(<<"Infinity">>)

Digits == {"0", "1", "2", "3", "4", "7"}

\* String(x): the text parseFloat and template literals see.
ToStr(x) ==
  CASE x.t = "undefined" -> <<"undefined">>
    [] x.t = "null" -> <<"null">>
    [] OTHER -> x.v

RECURSIVE DigitPrefix(_)
DigitPrefix(s) ==
  IF s = <<>> \/ Head(s) \notin Digits THEN <<>>
  ELSE <<Head(s)>> \o DigitPrefix(Tail(s))

\* parseFloat(x): the longest numeric prefix of String(x), else NaN.
parseFloat(x) ==
  LET s == ToStr(x) IN
  IF s # <<>> /\ Head(s) = "Infinity" THEN Infinity
  ELSE IF DigitPrefix(s) = <<>> THEN NaN
  ELSE Num(DigitPrefix(s))

\* Number(x): the coercion isNaN applies to its argument.
ToNumber(x) ==
  CASE x.t = "undefined" -> NaN
    [] x.t = "null" -> Num(<<"0">>)
    [] x.t = "boolean" -> IF x = True THEN Num(<<"1">>) ELSE Num(<<"0">>)
    [] x.t = "number" -> x
    [] OTHER ->
         IF x.v = <<>> THEN Num(<<"0">>)
         ELSE IF x.v = <<"Infinity">> THEN Infinity
         ELSE IF DigitPrefix(x.v) = x.v THEN Num(x.v)
         ELSE NaN

isNaN(x) == ToNumber(x) = NaN

\* A finite number value (what the spec calls numeric coordinates).
IsFiniteNumber(x) == x.t = "number" /\ x # NaN /\ x # Infinity

\* JavaScript truthiness of a primitive.
Truthy(x) ==
  CASE x.t = "undefined" -> FALSE
    [] x.t = "null" -> FALSE
    [] x.t = "boolean" -> x = True
    [] x.t = "number" -> x # NaN /\ x.v # <<"0">>
    [] OTHER -> x.v # <<>>

\* a ?? b
Coalesce(a, b) == IF a.t \in {"undefined", "null"} THEN b ELSE a

\* a || b
OrElse(a, b) == IF Truthy(a) THEN a ELSE b

(* ------------------------- request items ------------------------------ *)

Fields == {"id", "sub_id", "subId", "lat", "latitude", "lon", "lng",
           "longitude", "raio_m", "raio", "radius_m", "extra"}

CanonicalNames == {"id", "lat", "lon", "raio_m"}

NoFields == [k \in Fields |-> Undef]

\* An item of the body: an object with some of Fields present (an absent
\* field reads as undefined), or a non-object JSON value.
Obj(f) == [kind |-> "object", f |-> f]
NonObj(kind) == [kind |-> kind, f |-> NoFields]

With(f, k, val) == [f EXCEPT ![k] = val]

\* `temp_${Date.now()}`
TempId == Str(<<"temp_", "now">>)

\* The four values the object literal of normalizeOne computes before the
\* spread.
Canonical(x) ==
  [k \in CanonicalNames |->
     CASE k = "id" ->
            Coalesce(x.f["id"], Coalesce(x.f["sub_id"], Coalesce(x.f["subId"], TempId)))
       [] k = "lat" -> parseFloat(Coalesce(x.f["lat"], x.f["latitude"]))
       [] k = "lon" ->
            parseFloat(Coalesce(x.f["lon"], Coalesce(x.f["lng"], x.f["longitude"])))
       [] OTHER ->
            parseFloat(Coalesce(x.f["raio_m"],
                       Coalesce(x.f["raio"], Coalesce(x.f["radius_m"], Num(<<"3", "0", "0">>)))))]

\* { id: .., lat: .., lon: .., raio_m: .., ...x }: the spread comes last, so
\* every own property of x overwrites the computed value of the same name.
Spread(canon, x) ==
  [k \in Fields |->
     IF x.f[k] # Undef THEN x.f[k]
     ELSE IF k \in CanonicalNames THEN canon[k] ELSE Undef]

normalizeOne(x) ==
  IF x.kind # "object" THEN x
  ELSE Obj(Spread(Canonical(x), x))

\* A map that hands the items over in reverse order.
normalizePayloadReversed(payload) ==
  [isArray |-> payload.isArray,
   items |-> [i \in 1..Len(payload.items) |->
                normalizeOne(payload.items[Len(payload.items) + 1 - i])]]

\* A body is [isArray, items]; a bare object is the one-item case, which
\* the handler wraps into an array for validation.
normalizePayload(payload) ==
  [isArray |-> payload.isArray,
   items |-> [i \in 1..Len(payload.items) |-> normalizeOne(payload.items[i])]]

\* const arr = Array.isArray(payload) ? payload : [payload]
AsArray(payload) == payload.items

(* --------------------------- errors ----------------------------------- *)

\* null, as a parsed document: JSON.parse("null") and a failed extraction alike.
NoDoc == [t |-> "null", v |-> <<>>, f |-> [k \in {"ok", "error", "x"} |-> Undef]]

\* What a catch clause or a rejection carries: an Error (message) or one of
\* the plain objects runPython rejects with. Absent properties are undefined.
NoErr ==
  [code |-> Undef, error |-> Undef, message |-> Undef, stderr |-> Undef,
   raw |-> Undef, parsed |-> NoDoc, hasParsed |-> FALSE]

\* new Error(msg), and the errors the runtime raises itself.
Error(msg) == [NoErr EXCEPT !.message = Str(msg)]

\* The item the coordinate loop throws at: i itself when reading .lat of
\* item i throws or its coordinates are NaN, else the first such item after i.
RECURSIVE FirstRejected(_, _)
FirstRejected(arr, i) ==
  IF i > Len(arr) THEN 0
  ELSE IF arr[i].kind = "null" \/ isNaN(arr[i].f["lat"]) \/ isNaN(arr[i].f["lon"]) THEN i
  ELSE FirstRejected(arr, i + 1)

\* A validation block without the check for an empty array.
ValidationErrorEmptyAllowed(arr) ==
  LET i == FirstRejected(arr, 1) IN
  IF i = 0 THEN NoErr
  ELSE IF arr[i].kind = "null"
       THEN Error(<<"Cannot read properties of null">>)
       ELSE Error(<<"Coordenadas invalidas para ID: ">> \o ToStr(arr[i].f["id"]))

\* The error the validation block throws for the normalized array, or NoErr.
ValidationError(arr) ==
  IF Len(arr) = 0 THEN Error(<<"Payload vazio">>)
  ELSE LET i == FirstRejected(arr, 1) IN
       IF i = 0 THEN NoErr
       ELSE IF arr[i].kind = "null"
            THEN Error(<<"Cannot read properties of null">>)
            ELSE Error(<<"Coordenadas invalidas para ID: ">> \o ToStr(arr[i].f["id"]))

(* ----------------------- worker output text --------------------------- *)

\* The child's output is a sequence of tokens: "{", "}", ",", a whole
\* "key":value member, a number literal, whitespace ("ws") and log text
\* ("log": characters that are no JSON and hold no brace).
DocKeys == {"ok", "error", "x"}

Members ==
  {"ok:true", "ok:false", "ok:1", "error:boom", "error:empty", "error:42", "x:1"}

NumberLiterals == {"0", "7"}

MemberKey(m) ==
  CASE m \in {"ok:true", "ok:false", "ok:1"} -> "ok"
    [] m \in {"error:boom", "error:empty", "error:42"} -> "error"
    [] OTHER -> "x"

MemberValue(m) ==
  CASE m = "ok:true" -> True
    [] m = "ok:false" -> False
    [] m = "ok:1" -> Num(<<"1">>)
    [] m = "error:boom" -> Str(<<"b", "o", "o", "m">>)
    [] m = "error:empty" -> Str(<<>>)
    [] m = "error:42" -> Num(<<"4", "2">>)
    [] OTHER -> Num(<<"1">>)

RECURSIVE TrimLeft(_)
TrimLeft(s) == IF s # <<>> /\ Head(s) = "ws" THEN TrimLeft(Tail(s)) ELSE s

RECURSIVE TrimRight(_)
TrimRight(s) ==
  IF s # <<>> /\ s[Len(s)] = "ws" THEN TrimRight(SubSeq(s, 1, Len(s) - 1)) ELSE s

\* String.prototype.trim
Trim(s) == TrimLeft(TrimRight(s))

\* The text without its insignificant whitespace between tokens.
NoWs(s) == SelectSeq(s, LAMBDA c : c # "ws")

\* member ("," member)*
IsMemberList(s) ==
  /\ Len(s) % 2 = 1
  /\ \A i \in 1..Len(s) : IF i % 2 = 1 THEN s[i] \in Members ELSE s[i] = ","

\* The object a member list denotes: a repeated key keeps its last value.
ObjectOf(s) ==
  [t |-> "object", v |-> <<>>,
   f |-> [k \in DocKeys |->
            LET at == {i \in 1..Len(s) : s[i] \in Members /\ MemberKey(s[i]) = k} IN
            IF at = {} THEN Undef
            ELSE MemberValue(s[CHOOSE i \in at : \A j \in at : j <= i])]]

\* JSON.parse(text): [ok, val]; ok = FALSE stands for the SyntaxError.
JSONparse(text) ==
  LET s == NoWs(Trim(text)) IN
  IF Len(Trim(text)) = 1 /\ Trim(text)[1] \in NumberLiterals
    THEN [ok |-> TRUE, val |-> [NoDoc EXCEPT !.t = "number", !.v = Trim(text)]]
  ELSE IF Len(s) >= 2 /\ s[1] = "{" /\ s[Len(s)] = "}"
          /\ (Len(s) = 2 \/ IsMemberList(SubSeq(s, 2, Len(s) - 1)))
    THEN [ok |-> TRUE, val |-> ObjectOf(SubSeq(s, 2, Len(s) - 1))]
  ELSE [ok |-> FALSE, val |-> NoDoc]

\* raw.indexOf("{"), 0 when there is none (positions count from 1 here).
indexOf(raw, c) ==
  LET at == {i \in 1..Len(raw) : raw[i] = c} IN
  IF at = {} THEN 0 ELSE CHOOSE i \in at : \A j \in at : i <= j

\* raw.lastIndexOf("}"), 0 when there is none.
lastIndexOf(raw, c) ==
  LET at == {i \in 1..Len(raw) : raw[i] = c} IN
  IF at = {} THEN 0 ELSE CHOOSE i \in at : \A j \in at : j <= i

\* An extractor with the direct attempt only, no recovery between braces.
extractJSONDirectOnly(raw) ==
  IF JSONparse(raw).ok THEN JSONparse(raw).val ELSE NoDoc

\* extractJSON: the whole text, else the span from the first "{" to the last
\* "}", else null.
extractJSON(raw) ==
  IF JSONparse(raw).ok THEN JSONparse(raw).val
  ELSE LET firstBrace == indexOf(raw, "{")
           lastBrace == lastIndexOf(raw, "}") IN
       IF firstBrace # 0 /\ lastBrace # 0 /\ lastBrace > firstBrace
         THEN LET inner == JSONparse(SubSeq(raw, firstBrace, lastBrace)) IN
              IF inner.ok THEN inner.val ELSE NoDoc
         ELSE NoDoc

\* !parsed
DocFalsy(d) == d.t = "null" \/ (d.t = "number" /\ d.v = <<"0">>)

\* parsed.<key>: undefined on a value that is no object.
DocGet(d, k) == IF d.t = "object" THEN d.f[k] ELSE Undef

(* --------------------- rejections and responses ------------------------ *)

\* What the promise of runPython settles with: kind "resolved" carries
\* {parsed, stderr}, kind "rejected" carries err.
Unsettled == [kind |-> "pending", err |-> NoErr, parsed |-> NoDoc, stderr |-> Undef]
Resolved(parsed, errText) ==
  [kind |-> "resolved", err |-> NoErr, parsed |-> parsed, stderr |-> Str(errText)]
Rejected(err) == [kind |-> "rejected", err |-> err, parsed |-> NoDoc, stderr |-> Undef]

\* reject({ code: "TIMEOUT", error: "Python script timed out after 120s" })
TimeoutRejection ==
  Rejected([NoErr EXCEPT !.code = Str(<<"TIMEOUT">>),
                         !.error = Str(<<"Python script timed out after 120s">>)])

\* The Error of the child's 'error' event when the process cannot be created.
SpawnError ==
  [NoErr EXCEPT !.code = Str(<<"ENOENT">>), !.message = Str(<<"spawn python ENOENT">>)]

\* A 'close' handler that trusts the document's flag and ignores the exit code.
CloseSettlementIgnoringCode(code, out, errText) ==
  LET parsed == extractJSON(Trim(out)) IN
  IF DocFalsy(parsed)
    THEN Rejected([NoErr EXCEPT !.code = code,
                                !.error = Str(<<"Invalid JSON output from Python">>),
                                !.raw = Str(out),
                                !.stderr = Str(errText)])
  ELSE IF DocGet(parsed, "ok") = True
    THEN Resolved(parsed, errText)
  ELSE Rejected([NoErr EXCEPT !.code = code,
                              !.error = OrElse(DocGet(parsed, "error"),
                                               Str(<<"Python logical error">>)),
                              !.parsed = parsed,
                              !.hasParsed = TRUE,
                              !.stderr = Str(errText)])

\* The message of a worker's logical failure, always the generic one.
LogicalErrorGeneric(parsed) == Str(<<"Python logical error">>)

\* parsed.error || "Python logical error"
LogicalError(parsed) == OrElse(DocGet(parsed, "error"), Str(<<"Python logical error">>))

\* A 'close' handler that takes any diagnostics text for a failure.
CloseSettlementReadingStderr(code, out, errText) ==
  LET parsed == extractJSON(Trim(out)) IN
  IF DocFalsy(parsed) \/ errText # <<>>
    THEN Rejected([NoErr EXCEPT !.code = code,
                                !.error = Str(<<"Invalid JSON output from Python">>),
                                !.raw = Str(out),
                                !.stderr = Str(errText)])
  ELSE IF code = Num(<<"0">>) /\ DocGet(parsed, "ok") = True
    THEN Resolved(parsed, errText)
  ELSE Rejected([NoErr EXCEPT !.code = code,
                              !.error = LogicalError(parsed),
                              !.parsed = parsed,
                              !.hasParsed = TRUE,
                              !.stderr = Str(errText)])

\* The body of the 'close' handler: what it settles the promise with.
CloseSettlement(code, out, errText) ==
  LET parsed == extractJSON(Trim(out)) IN
  IF DocFalsy(parsed)
    THEN Rejected([NoErr EXCEPT !.code = code,
                                !.error = Str(<<"Invalid JSON output from Python">>),
                                !.raw = Str(out),
                                !.stderr = Str(errText)])
  ELSE IF code = Num(<<"0">>) /\ DocGet(parsed, "ok") = True
    THEN Resolved(parsed, errText)
  ELSE Rejected([NoErr EXCEPT !.code = code,
                              !.error = LogicalError(parsed),
                              !.parsed = parsed,
                              !.hasParsed = TRUE,
                              !.stderr = Str(errText)])

NoResponse ==
  [status |-> 0, ok |-> FALSE, data |-> NoDoc, error |-> Undef, details |-> Undef,
   detailsObj |-> NoErr]

\* A success response that forwards the document without its "x" member.
SuccessResponseReshaped(parsed) ==
  [status |-> 200, ok |-> TRUE, data |-> [parsed EXCEPT !.f["x"] = Undef],
   error |-> Undef, details |-> Undef, detailsObj |-> NoErr]

\* res.status(200).json({ ok: true, data: parsed })
SuccessResponse(parsed) == [NoResponse EXCEPT !.status = 200, !.ok = TRUE, !.data = parsed]

\* A catch clause without the fallback message.
FailureResponseNoFallback(err) ==
  [status |-> 500, ok |-> FALSE, data |-> NoDoc, error |-> err.error,
   details |-> IF Truthy(err.stderr) THEN err.stderr
               ELSE IF Truthy(err.message) THEN err.message
               ELSE [t |-> "object", v |-> <<>>],
   detailsObj |-> IF Truthy(err.stderr) \/ Truthy(err.message) THEN NoErr ELSE err]

\* The catch clause: res.status(500).json({ ok: false, error: err.error ||
\* "Internal Server Error", details: err.stderr || err.message || err }).
FailureResponse(err) ==
  [NoResponse EXCEPT
     !.status = 500,
     !.error = OrElse(err.error, Str(<<"Internal Server Error">>)),
     !.details = IF Truthy(err.stderr) THEN err.stderr
                 ELSE IF Truthy(err.message) THEN err.message
                 ELSE [t |-> "object", v |-> <<>>],
     !.detailsObj = IF Truthy(err.stderr) \/ Truthy(err.message) THEN NoErr ELSE err]

\* What the handler answers once the awaited promise has settled.
ResponseFor(s) ==
  IF s.kind = "resolved" THEN SuccessResponse(s.parsed) ELSE FailureResponse(s.err)

\* JSON.stringify of one value of the payload: NaN and the infinities are
\* written as null, an undefined property is left out.
StringifyValue(x) == IF x.t = "number" /\ x \in {NaN, Infinity} THEN Null ELSE x

\* JSON.stringify(payload): the text written to the child's input, kept as
\* the items it denotes.
JSONstringify(payload) ==
  [isArray |-> payload.isArray,
   items |-> [i \in 1..Len(payload.items) |->
                [kind |-> payload.items[i].kind,
                 f |-> [k \in Fields |-> StringifyValue(payload.items[i].f[k])]]]]

\* One child per item of the batch.
ChildrenPerItem(payload) == Len(payload.items)

\* spawn(PYTHON_BIN, [RUNNER], ...): the children one call of runPython
\* creates for a payload.
ChildrenSpawned(payload) == 1

(* ----------------------------- inputs --------------------------------- *)

RECURSIVE FromPairs(_)
FromPairs(ps) ==
  IF ps = <<>> THEN NoFields
  ELSE With(FromPairs(Tail(ps)), Head(ps)[1], Head(ps)[2])

Twelve == <<"1", "2">>
Three == <<"3">>

\* Object items a client may send.
ObjectItems ==
  { Obj(FromPairs(<< <<"id", Str(<<"a">>)>>, <<"lat", Num(Twelve)>>, <<"lon", Num(Three)>> >>)),
    Obj(FromPairs(<< <<"sub_id", Str(<<"b">>)>>, <<"latitude", Str(Twelve)>>,
                     <<"lng", Num(Three)>>, <<"raio", Num(<<"1", "0", "0">>)>> >>)),
    Obj(FromPairs(<< <<"id", Str(<<"s">>)>>, <<"lat", Str(Twelve)>>, <<"lon", Str(Three)>>,
                     <<"extra", Str(<<"x">>)>> >>)),
    Obj(FromPairs(<< <<"id", Str(<<"n">>)>>, <<"lat", Null>>, <<"lon", Num(Three)>> >>)),
    Obj(FromPairs(<< <<"id", Str(<<"e">>)>>, <<"lat", Str(<<>>)>>, <<"lon", Num(Three)>> >>)),
    Obj(FromPairs(<< <<"id", Str(<<"t">>)>>, <<"lat", Num(Twelve)>>, <<"lon", True>> >>)),
    Obj(FromPairs(<< <<"id", Str(<<"c">>)>>, <<"lat", Str(<<"a", "b", "c">>)>>,
                     <<"lon", Num(Three)>> >>)),
    Obj(FromPairs(<< <<"id", Str(<<"m">>)>>, <<"lon", Num(Three)>> >>)),
    Obj(FromPairs(<< <<"subId", Str(<<"i">>)>>, <<"latitude", Str(<<"Infinity">>)>>,
                     <<"longitude", Num(Three)>> >>)),
    Obj(FromPairs(<< <<"latitude", Str(<<"1", "2", "a">>)>>, <<"lng", Str(Three)>>,
                     <<"radius_m", Str(<<"7">>)>> >>)) }

\* Array elements may also be JSON values that are no object.
Items == ObjectItems \cup {NonObj("null"), NonObj("number")}

RECURSIVE SeqsUpTo(_, _)
SeqsUpTo(S, n) ==
  IF n = 0 THEN {<<>>}
  ELSE LET shorter == SeqsUpTo(S, n - 1) IN
       shorter \cup {Append(q, x) : q \in shorter, x \in S}

\* req.body: one object, or an array of at most MaxBatch items.
Bodies ==
  {[isArray |-> FALSE, items |-> <<x>>] : x \in ObjectItems}
    \cup {[isArray |-> TRUE, items |-> q] : q \in SeqsUpTo(Items, MaxBatch)}

\* What the child writes to its output stream before it exits.
Outputs ==
  { <<>>,
    <<"log">>,
    <<"0">>,
    <<"7">>,
    <<"{", "ok:true", "}">>,
    <<"log", "ws", "{", "ok:true", ",", "x:1", "}", "ws">>,
    <<"{", "ok:false", ",", "error:boom", "}">>,
    <<"{", "ok:false", ",", "error:empty", "}">>,
    <<"{", "ok:false", "}">>,
    <<"{", "error:42", "}">>,
    <<"{", "ok:1", "}">>,
    <<"{", "log", "}", "ws", "{", "ok:true", "}">> }

\* Exit codes of a child that ran: 0, 1, or null when a signal ended it.
ExitCodes == {Num(<<"0">>), Num(<<"1">>), Null}

NoScript == [out |-> <<>>, code |-> Undef]

Scripts == {[out |-> o, code |-> c] : o \in Outputs, c \in ExitCodes}

(* ------------------------------ state --------------------------------- *)

\* Requests in flight at once.
Reqs == {1, 2}

\* The request that is followed alone, over the whole of Bodies and Scripts.
Solo == {1}

VARIABLES
  pc,          \* per request: "idle", "awaiting" (suspended at the await), "responded"
  body,        \* req.body
  payload,     \* const payload = normalizePayload(req.body)
  child,       \* the child: "none", "running", "failed" (could not be created),
               \*   "killed" (p.kill() was sent), "closed" ('close' was handled)
  script,      \* what the child will write and the code it exits with
  stdout,      \* let stdout
  stderr,      \* let stderr
  timer,       \* the timeout: "unset", "armed", "fired", "cleared"
  settled,     \* the promise of runPython
  responses,   \* the responses written to res, in order
  spawns,      \* calls of spawn
  kills,       \* calls of p.kill()
  stdin,       \* the writes made to p.stdin, in order
  stdinEnded,  \* p.stdin.end() was called
  errored,     \* the 'error' handler has run
  closeCode,   \* the code the 'close' handler got, undefined before it ran
  oneItem,     \* the argument of a call of normalizeOne taken alone
  oneResult,   \* what that call returned
  rawText,     \* the argument of a call of extractJSON taken alone
  document     \* what that call returned

bridgeVars ==
  <<pc, body, payload, child, script, stdout, stderr, timer, settled, responses, spawns,
    kills, stdin, stdinEnded, errored, closeCode>>

pureVars == <<oneItem, oneResult, rawText, document>>

vars == <<bridgeVars, pureVars>>

\* No call made yet, in the shape of an item and of a document.
NotNormalized == NonObj("pending")
NotExtracted == [NoDoc EXCEPT !.t = "pending"]

NoBody == [isArray |-> TRUE, items |-> <<>>]

InitBridge ==
  /\ pc = [r \in Reqs |-> "idle"]
  /\ body = [r \in Reqs |-> NoBody]
  /\ payload = [r \in Reqs |-> NoBody]
  /\ child = [r \in Reqs |-> "none"]
  /\ script = [r \in Reqs |-> NoScript]
  /\ stdout = [r \in Reqs |-> <<>>]
  /\ stderr = [r \in Reqs |-> <<>>]
  /\ timer = [r \in Reqs |-> "unset"]
  /\ settled = [r \in Reqs |-> Unsettled]
  /\ responses = [r \in Reqs |-> <<>>]
  /\ spawns = [r \in Reqs |-> 0]
  /\ kills = [r \in Reqs |-> 0]
  /\ stdin = [r \in Reqs |-> <<>>]
  /\ stdinEnded = [r \in Reqs |-> FALSE]
  /\ errored = [r \in Reqs |-> FALSE]
  /\ closeCode = [r \in Reqs |-> Undef]

Init ==
  /\ InitBridge
  /\ oneItem = NonObj("null")
  /\ oneResult = NotNormalized
  /\ rawText = <<>>
  /\ document = NotExtracted

\* A resolution point with no guard: each call settles again and answers again.
SettleAgain(r, s) ==
  /\ settled' = [settled EXCEPT ![r] = s]
  /\ responses' = [responses EXCEPT ![r] = Append(@, ResponseFor(s))]
  /\ pc' = [pc EXCEPT ![r] = "responded"]

\* resolve(..) / reject(..): a promise settles once, later calls change
\* nothing. The handler suspended at the await resumes in the same turn of
\* the event loop, before any other event is handled, and writes the response.
Settle(r, s) ==
  IF settled[r].kind = "pending"
    THEN /\ settled' = [settled EXCEPT ![r] = s]
         /\ responses' = [responses EXCEPT ![r] = Append(@, ResponseFor(s))]
         /\ pc' = [pc EXCEPT ![r] = "responded"]
    ELSE UNCHANGED <<settled, responses, pc>>

\* POST /scan, validation throws: the catch clause answers, runPython is
\* never called.
ScanRejectedFrom(r, bodies) ==
  /\ pc[r] = "idle"
  /\ \E b \in bodies :
       LET err == ValidationError(AsArray(normalizePayload(b))) IN
       /\ err # NoErr
       /\ body' = [body EXCEPT ![r] = b]
       /\ payload' = [payload EXCEPT ![r] = normalizePayload(b)]
       /\ responses' = [responses EXCEPT ![r] = Append(@, FailureResponse(err))]
       /\ pc' = [pc EXCEPT ![r] = "responded"]
  /\ UNCHANGED <<child, script, stdout, stderr, timer, settled, spawns, kills,
                 stdin, stdinEnded, errored, closeCode>>
  /\ UNCHANGED pureVars

ScanRejected(r) == ScanRejectedFrom(r, Bodies)

\* POST /scan, validation passes: runPython(payload) up to the await. The
\* child is created or not, the timer armed, the listeners attached, the
\* payload written and the input ended, all in one synchronous run.
ScanInvokeFrom(r, bodies, scripts) ==
  /\ pc[r] = "idle"
  /\ \E b \in bodies :
       LET normalized == normalizePayload(b) IN
       /\ ValidationError(AsArray(normalized)) = NoErr
       /\ body' = [body EXCEPT ![r] = b]
       /\ payload' = [payload EXCEPT ![r] = normalized]
       /\ spawns' = [spawns EXCEPT ![r] = @ + ChildrenSpawned(normalized)]
       /\ stdin' = [stdin EXCEPT ![r] = Append(@, JSONstringify(normalized))]
  /\ \E sc \in scripts \cup {NoScript} :
       /\ script' = [script EXCEPT ![r] = sc]
       /\ child' = [child EXCEPT ![r] = IF sc = NoScript THEN "failed" ELSE "running"]
  /\ timer' = [timer EXCEPT ![r] = "armed"]
  /\ settled' = [settled EXCEPT ![r] = Unsettled]
  /\ stdinEnded' = [stdinEnded EXCEPT ![r] = TRUE]
  /\ pc' = [pc EXCEPT ![r] = "awaiting"]
  /\ UNCHANGED <<stdout, stderr, responses, kills, errored, closeCode>>
  /\ UNCHANGED pureVars

ScanInvoke(r) == ScanInvokeFrom(r, Bodies, Scripts)

\* One stdout buffer at module scope, shared by every invocation.
SharedBuffer(r) == Reqs

\* let stdout = "" inside runPython: the data listener of invocation r appends
\* to the buffer of its own closure.
Buffers(r) == {r}

\* p.stdout.on("data"): the next piece of the child's output arrives. Data
\* already in the pipe is still delivered after a kill.
StdoutData(r) ==
  /\ child[r] \in {"running", "killed"}
  /\ Len(stdout[r]) < Len(script[r].out)
  /\ stdout' = [q \in Reqs |->
                  IF q \in Buffers(r)
                    THEN Append(stdout[q], script[r].out[Len(stdout[r]) + 1])
                    ELSE stdout[q]]
  /\ UNCHANGED <<pc, body, payload, child, script, stderr, timer, settled, responses, spawns,
                 kills, stdin, stdinEnded, errored, closeCode>>
  /\ UNCHANGED pureVars

\* p.stderr.on("data")
StderrData(r) ==
  /\ child[r] \in {"running", "killed"}
  /\ Len(stderr[r]) < MaxStderr
  /\ stderr' = [stderr EXCEPT ![r] = Append(@, "e")]
  /\ UNCHANGED <<pc, body, payload, child, script, stdout, timer, settled, responses, spawns,
                 kills, stdin, stdinEnded, errored, closeCode>>
  /\ UNCHANGED pureVars

\* p.kill() with the timer forgotten to kill: the child is left as it was.
NotKilled(c) == c

\* p.kill(): a running child is sent the termination signal.
Killed(c) == IF c = "running" THEN "killed" ELSE c

\* A timer callback that kills the child and leaves the promise pending.
TimerKillsOnly(r) ==
  /\ timer[r] = "armed"
  /\ child[r] # "failed"
  /\ timer' = [timer EXCEPT ![r] = "fired"]
  /\ kills' = [kills EXCEPT ![r] = @ + 1]
  /\ child' = [child EXCEPT ![r] = Killed(@)]
  /\ UNCHANGED <<pc, settled, responses>>
  /\ UNCHANGED <<body, payload, script, stdout, stderr, spawns, stdin, stdinEnded,
                 errored, closeCode>>
  /\ UNCHANGED pureVars

\* The timer callback: p.kill(); reject(TIMEOUT). It runs only while armed;
\* the 'error' of a failed spawn is queued for the next tick, ahead of any timer.
TimerFired(r) ==
  /\ timer[r] = "armed"
  /\ child[r] # "failed"
  /\ timer' = [timer EXCEPT ![r] = "fired"]
  /\ kills' = [kills EXCEPT ![r] = @ + 1]
  /\ child' = [child EXCEPT ![r] = Killed(@)]
  /\ Settle(r, TimeoutRejection)
  /\ UNCHANGED <<body, payload, script, stdout, stderr, spawns, stdin, stdinEnded,
                 errored, closeCode>>
  /\ UNCHANGED pureVars

\* A handler that does not cancel the timer.
NotCleared(t) == t

\* clearTimeout(timeout)
Cleared(t) == IF t = "armed" THEN "cleared" ELSE t

\* p.on("error"): clearTimeout; reject(err).
ChildError(r) ==
  /\ child[r] = "failed"
  /\ ~errored[r]
  /\ errored' = [errored EXCEPT ![r] = TRUE]
  /\ timer' = [timer EXCEPT ![r] = Cleared(@)]
  /\ Settle(r, Rejected(SpawnError))
  /\ UNCHANGED <<body, payload, child, script, stdout, stderr, spawns, kills, stdin,
                 stdinEnded, closeCode>>
  /\ UNCHANGED pureVars

\* The codes 'close' may report: the child's own once all its output is in,
\* null after a kill, the negated errno after a failed spawn.
CloseCodes(r) ==
  CASE child[r] = "running" ->
         IF Len(stdout[r]) = Len(script[r].out) THEN {script[r].code} ELSE {}
    [] child[r] = "killed" ->
         {Null} \cup (IF Len(stdout[r]) = Len(script[r].out) THEN {script[r].code} ELSE {})
    [] child[r] = "failed" -> IF errored[r] THEN {Num(<<"-", "2">>)} ELSE {}
    [] OTHER -> {}

\* p.on("close"): clearTimeout; extract, correlate, resolve or reject.
ChildClose(r) ==
  \E code \in CloseCodes(r) :
    /\ child' = [child EXCEPT ![r] = "closed"]
    /\ closeCode' = [closeCode EXCEPT ![r] = code]
    /\ timer' = [timer EXCEPT ![r] = Cleared(@)]
    /\ Settle(r, CloseSettlement(code, stdout[r], stderr[r]))
    /\ UNCHANGED <<body, payload, script, stdout, stderr, spawns, kills, stdin,
                   stdinEnded, errored>>
    /\ UNCHANGED pureVars

Next ==
  \E r \in Solo :
    \/ ScanRejected(r)
    \/ ScanInvoke(r)
    \/ StdoutData(r)
    \/ StderrData(r)
    \/ TimerFired(r)
    \/ ChildError(r)
    \/ ChildClose(r)

Spec == Init /\ [][Next]_vars

(* ------------------------ reading the state --------------------------- *)

\* The only response of a request that was answered exactly once.
TheResponse(r) == responses[r][1]

\* The document the extractor recovers from everything the child wrote.
Extracted(r) == extractJSON(Trim(stdout[r]))

\* The 'close' handler ran with the timer still armed and no 'error' before.
ClosedInTime(r) == child[r] = "closed" /\ timer[r] = "cleared" /\ ~errored[r]

IsFailure(resp) == resp.status = 500 /\ resp.ok = FALSE

(* ------------------------------ claims -------------------------------- *)

\* C1: once the timer has fired before 'close' and 'error', the outcome is the
\* TIMEOUT rejection and the one response is a failure, whatever was buffered
\* and whatever the child does later (a close with code 0 and an ok document
\* included).
C1_TimeoutAlwaysFails ==
  \A r \in Reqs :
    timer[r] = "fired" =>
      /\ settled[r].kind = "rejected"
      /\ settled[r].err.code = Str(<<"TIMEOUT">>)
      /\ Len(responses[r]) = 1
      /\ IsFailure(TheResponse(r))
      /\ TheResponse(r).error = Str(<<"Python script timed out after 120s">>)
      /\ TheResponse(r).detailsObj.code = Str(<<"TIMEOUT">>)

\* The timer fired, and afterwards the child closed with code 0 having written
\* a full document whose ok flag is true.
C1_Witness ==
  \E r \in Reqs :
    /\ timer[r] = "fired"
    /\ child[r] = "closed"
    /\ closeCode[r] = Num(<<"0">>)
    /\ DocGet(Extracted(r), "ok") = True

\* A normalized item whose lat or lon is not a finite number.
HasNonFiniteCoordinate(item) ==
  \/ item.kind # "object"
  \/ ~IsFiniteNumber(item.f["lat"])
  \/ ~IsFiniteNumber(item.f["lon"])

\* C2: a request whose batch holds an item with a lat or lon that is not a
\* finite number after normalization is answered with a failure and spawns no
\* worker.
C2_NonFiniteNeverSpawns ==
  \A r \in Reqs :
    (pc[r] # "idle"
       /\ \E i \in 1..Len(payload[r].items) : HasNonFiniteCoordinate(payload[r].items[i]))
      => /\ spawns[r] = 0
         /\ pc[r] = "responded"
         /\ Len(responses[r]) = 1
         /\ IsFailure(TheResponse(r))

\* C3: the invocation succeeds exactly when the child closed before the timer
\* fired and without an 'error' event, the extractor returned a document, the
\* exit code is 0 and the document's ok flag is exactly true; once 'close' has
\* been handled the invocation has succeeded or failed.
C3_SuccessIffCleanExitAndOk ==
  \A r \in Reqs :
    /\ settled[r].kind = "resolved"
         <=> /\ ClosedInTime(r)
             /\ Extracted(r) # NoDoc
             /\ closeCode[r] = Num(<<"0">>)
             /\ DocGet(Extracted(r), "ok") = True
    /\ child[r] = "closed" => settled[r].kind \in {"resolved", "rejected"}

\* A success recovered from output that has log text around the document.
C3_Witness ==
  \E r \in Reqs :
    /\ settled[r].kind = "resolved"
    /\ stdout[r] # <<>>
    /\ Head(stdout[r]) = "log"

\* C4: for every object item the normalized id, lat, lon and radius are the
\* values the normalizer resolved and coerced, whatever raw field of the same
\* name the input has, and every other field is the input's.
C4_CanonicalFieldsTakePrecedence ==
  \A r \in Reqs :
    \A i \in 1..Len(body[r].items) :
      body[r].items[i].kind = "object" =>
        /\ \A k \in CanonicalNames :
             payload[r].items[i].f[k] = Canonical(body[r].items[i])[k]
        /\ \A k \in Fields \ CanonicalNames :
             payload[r].items[i].f[k] = body[r].items[i].f[k]

\* Every request that ended in a failure.
FailedRequest(r) == pc[r] = "responded" /\ settled[r].kind # "resolved"

C6_ReleasedOnEveryExit ==
  \A r \in Reqs :
    (spawns[r] > 0 /\ settled[r].kind # "pending") =>
      /\ child[r] \in {"closed", "killed", "failed"}
      /\ child[r] = "killed" => kills[r] > 0
      /\ stdinEnded[r]
      /\ timer[r] \in {"fired", "cleared"}

\* The invocation returned by timeout while the child had not closed.
C6_Witness ==
  \E r \in Reqs :
    /\ settled[r].kind = "rejected"
    /\ timer[r] = "fired"
    /\ child[r] = "killed"
    /\ stdout[r] # <<>>

\* C7: after the 'error' event of a failed spawn the invocation has failed with
\* the system error, the timer is cancelled and never fires, no kill is sent,
\* and the request is answered once with a failure; no later event turns it
\* into a TIMEOUT or a success.
C7_SpawnErrorFailsAtOnce ==
  \A r \in Reqs :
    errored[r] =>
      /\ settled[r] = Rejected(SpawnError)
      /\ timer[r] = "cleared"
      /\ kills[r] = 0
      /\ Len(responses[r]) = 1
      /\ IsFailure(TheResponse(r))
      /\ TheResponse(r).details = SpawnError.message

\* The spawn failed, 'error' was handled and 'close' came after it.
C7_Witness ==
  \E r \in Reqs : errored[r] /\ child[r] = "closed"

\* The child closed in time and a document that indicates failure was recovered.
LogicalFailure(r) ==
  /\ ClosedInTime(r)
  /\ ~DocFalsy(Extracted(r))
  /\ (closeCode[r] # Num(<<"0">>) \/ DocGet(Extracted(r), "ok") # True)

\* C8 as stated: on a logical failure the response's error is the document's
\* error field whenever the document has one, and the generic message only
\* when it has none.
C8_ErrorVerbatimWhenPresent ==
  \A r \in Reqs :
    LogicalFailure(r) =>
      /\ Len(responses[r]) = 1
      /\ TheResponse(r).error =
           IF DocGet(Extracted(r), "error") # Undef
             THEN DocGet(Extracted(r), "error")
             ELSE Str(<<"Python logical error">>)

\* C8, amended: on a logical failure the response's error is the document's
\* error field verbatim whenever that field is present and truthy (a non-empty
\* string, a non-zero number), and the generic message when the field is
\* absent or falsy (empty string, 0, null, false).
C8_ErrorVerbatimWhenTruthy ==
  \A r \in Reqs :
    LogicalFailure(r) =>
      /\ Len(responses[r]) = 1
      /\ IsFailure(TheResponse(r))
      /\ TheResponse(r).error =
           IF Truthy(DocGet(Extracted(r), "error"))
             THEN DocGet(Extracted(r), "error")
             ELSE Str(<<"Python logical error">>)

\* Exit code 0 with output {"ok": false, "error": "boom"}: the message is "boom".
C8_Witness ==
  \E r \in Reqs :
    /\ LogicalFailure(r)
    /\ closeCode[r] = Num(<<"0">>)
    /\ stdout[r] = <<"{", "ok:false", ",", "error:boom", "}">>
    /\ TheResponse(r).error = Str(<<"b", "o", "o", "m">>)

\* C9: on success the one response is HTTP 200 with ok true and data equal to
\* the document the extractor recovers from the child's output.
C9_DataIsExtractedDocument ==
  \A r \in Reqs :
    settled[r].kind = "resolved" =>
      /\ Len(responses[r]) = 1
      /\ TheResponse(r).status = 200
      /\ TheResponse(r).ok = TRUE
      /\ TheResponse(r).data = Extracted(r)
      /\ TheResponse(r).data = settled[r].parsed

\* A success whose document carries a result member besides the flag.
C9_Witness ==
  \E r \in Reqs :
    /\ settled[r].kind = "resolved"
    /\ Len(responses[r]) = 1
    /\ TheResponse(r).data.f["x"] # Undef

\* C10: a request never spawns more than one child; one that passed
\* validation has spawned exactly one, which was given the whole batch in one
\* document, and one that failed validation none; a failed invocation is not
\* run again.
C10_OneChildPerRequest ==
  \A r \in Reqs :
    /\ spawns[r] <= 1
    /\ pc[r] # "idle" =>
         (spawns[r] = 1 <=> ValidationError(AsArray(payload[r])) = NoErr)
    /\ spawns[r] = Len(stdin[r])
    /\ spawns[r] >= 1 => Len(stdin[r][1].items) = Len(body[r].items)

\* A batch of two items whose invocation failed: still one child.
C10_Witness ==
  \E r \in Reqs :
    /\ Len(body[r].items) = 2
    /\ spawns[r] = 1
    /\ child[r] = "closed"
    /\ settled[r].kind = "rejected"

\* C11: a request whose body is an empty array is answered at once with a
\* failure (HTTP 500, details "Payload vazio") and spawns no worker.
C11_EmptyArrayFailsWithoutWorker ==
  \A r \in Reqs :
    (pc[r] # "idle" /\ body[r].isArray /\ Len(body[r].items) = 0) =>
      /\ pc[r] = "responded"
      /\ spawns[r] = 0
      /\ child[r] = "none"
      /\ Len(responses[r]) = 1
      /\ IsFailure(TheResponse(r))
      /\ TheResponse(r).details = Str(<<"Payload vazio">>)

\* The empty array was posted and answered.
C11_Witness ==
  \E r \in Reqs :
    /\ pc[r] = "responded"
    /\ body[r].isArray
    /\ Len(body[r].items) = 0
    /\ Len(responses[r]) = 1

\* The first item of a normalized batch, in batch order, whose lat or lon is
\* not a finite number; 0 when there is none.
FirstNonFinite(arr) ==
  LET at == {i \in 1..Len(arr) : HasNonFiniteCoordinate(arr[i])} IN
  IF at = {} THEN 0 ELSE CHOOSE i \in at : \A j \in at : i <= j

\* C12: when validation fails a batch of objects for its coordinates, the
\* failure response names the id of the first item, in batch order, whose
\* coordinates are invalid (not finite numbers), not of a later one.
C12_FirstInvalidItemIsNamed ==
  \A r \in Reqs :
    (/\ pc[r] = "responded"
     /\ spawns[r] = 0
     /\ Len(payload[r].items) > 0
     /\ \A i \in 1..Len(payload[r].items) : payload[r].items[i].kind = "object")
      => /\ Len(responses[r]) = 1
         /\ IsFailure(TheResponse(r))
         /\ FirstNonFinite(payload[r].items) # 0
         /\ TheResponse(r).details =
              Str(<<"Coordenadas invalidas para ID: ">>
                    \o ToStr(payload[r].items[FirstNonFinite(payload[r].items)].f["id"]))

\* C16: once runPython has been called for a request, the child's input stream
\* holds exactly one write, the serialized normalized batch, with as many items
\* as the request and in the request's order, and the stream has been ended;
\* no state ever holds a second write.
C16_OneOrderedWriteThenEnd ==
  \A r \in Reqs :
    /\ Len(stdin[r]) <= 1
    /\ (stdinEnded[r] \/ Len(stdin[r]) = 1) => spawns[r] = 1
    /\ spawns[r] = 1 =>
         /\ stdinEnded[r]
         /\ Len(stdin[r]) = 1
         /\ stdin[r][1].isArray = body[r].isArray
         /\ Len(stdin[r][1].items) = Len(body[r].items)
         /\ \A i \in 1..Len(body[r].items) :
              /\ stdin[r][1].items[i].kind = "object"
              /\ \A k \in Fields :
                   stdin[r][1].items[i].f[k] =
                     StringifyValue(normalizeOne(body[r].items[i]).f[k])

\* A batch of two different items was written to a child that has since closed.
C16_Witness ==
  \E r \in Reqs :
    /\ spawns[r] = 1
    /\ Len(body[r].items) = 2
    /\ body[r].items[1] # body[r].items[2]
    /\ child[r] = "closed"
    /\ Len(stdin[r]) = 1

\* C19: an invocation has one resolution point. A request never holds two
\* responses, and once its promise has settled (by the timer, 'error' or
\* 'close', whichever ran first) no step changes the outcome or the response;
\* the response is the one the first settlement decides.
C19_SingleResolutionPoint ==
  /\ [](\A r \in Reqs :
          /\ Len(responses[r]) <= 1
          /\ (spawns[r] > 0 /\ settled[r].kind # "pending") =>
               /\ Len(responses[r]) = 1
               /\ TheResponse(r) = ResponseFor(settled[r]))
  /\ [][\A r \in Reqs :
          /\ settled[r].kind # "pending" =>
               settled'[r] = settled[r] /\ responses'[r] = responses[r]
          /\ responses[r] # <<>> => responses'[r] = responses[r]]_vars

\* The timer fired first, and later the killed child's 'close' handler ran
\* with a null exit code: a second call at the resolution point.
C19_Witness ==
  \E r \in Reqs :
    /\ timer[r] = "fired"
    /\ child[r] = "closed"
    /\ closeCode[r] = Null
    /\ Len(responses[r]) = 1

\* C20: a kill is issued only by the timer firing while it is still armed,
\* that is, before the 'close' and the 'error' handler (which both cancel it)
\* have run; an invocation is sent at most one kill.
C20_KillOnlyByArmedTimer ==
  /\ [](\A r \in Reqs :
          /\ kills[r] <= 1
          /\ kills[r] = 1 <=> timer[r] = "fired"
          /\ (closeCode[r] # Undef \/ errored[r]) => timer[r] # "armed")
  /\ [][\A r \in Reqs :
          kills'[r] # kills[r] =>
            /\ kills'[r] = kills[r] + 1
            /\ timer[r] = "armed"
            /\ timer'[r] = "fired"
            /\ child[r] # "closed"
            /\ closeCode[r] = Undef
            /\ ~errored[r]]_vars

\* The timer fired on a running child and sent its one kill; the child then
\* closed with the exit code 1 of its own.
C20_Witness ==
  \E r \in Reqs :
    /\ kills[r] = 1
    /\ child[r] = "closed"
    /\ closeCode[r] = Num(<<"1">>)

(* --------------------- the normalizer on one item --------------------- *)

\* Single items over every combination of the coordinate and radius aliases:
\* absent, null, a JSON number, a numeral in a string, other text.
WideItems ==
  { Obj(FromPairs(<< <<"id", i>>, <<"lat", a>>, <<"latitude", b>>, <<"lon", c>>,
                     <<"lng", d>>, <<"longitude", e>>, <<"raio_m", g>>, <<"raio", h>>,
                     <<"radius_m", j>> >>)) :
      i \in {Undef, Str(<<"a">>)},
      a \in {Undef, Null, Num(Twelve), Str(Twelve)},
      b \in {Undef, Num(Twelve), Str(<<"a", "b", "c">>)},
      c \in {Undef, Null, Num(Three)},
      d \in {Undef, Num(Three)},
      e \in {Undef, Num(Three)},
      g \in {Undef, Null, Num(<<"1", "0", "0">>)},
      h \in {Undef, Num(<<"1", "0", "0">>)},
      j \in {Undef, Str(<<"7">>)} }

InitNormalize ==
  /\ InitBridge
  /\ oneItem \in WideItems
  /\ oneResult = NotNormalized
  /\ rawText = <<>>
  /\ document = NotExtracted

\* normalizeOne(x) called on the item.
Normalize ==
  /\ oneResult = NotNormalized
  /\ oneResult' = normalizeOne(oneItem)
  /\ UNCHANGED <<bridgeVars, oneItem, rawText, document>>

NextNormalize == Normalize

SpecNormalize == InitNormalize /\ [][NextNormalize]_vars

\* The value the normalizer resolves for a coordinate: the first of its
\* accepted names, in priority order, that is neither absent nor null.
ResolvedLat(x) == Coalesce(x.f["lat"], x.f["latitude"])
ResolvedLon(x) == Coalesce(x.f["lon"], Coalesce(x.f["lng"], x.f["longitude"]))

\* C17: an item with none of the accepted radius fields is normalized to a
\* radius of 300, and an item whose coordinates are given as numbers under any
\* of the accepted names (the value the normalizer resolves for lat and for
\* lon is a finite number) is normalized to a finite lat and a finite lon.
C17_DefaultRadiusAndFiniteCoordinates ==
  oneResult # NotNormalized =>
    /\ (\A k \in {"raio_m", "raio", "radius_m"} : oneItem.f[k] = Undef) =>
         oneResult.f["raio_m"] = Num(<<"3", "0", "0">>)
    /\ (IsFiniteNumber(ResolvedLat(oneItem)) /\ IsFiniteNumber(ResolvedLon(oneItem))) =>
         IsFiniteNumber(oneResult.f["lat"]) /\ IsFiniteNumber(oneResult.f["lon"])

(* ---------------------- the extractor on one text --------------------- *)

\* Tokens of the texts the extractor is tried on: braces, a member, a comma,
\* log text, whitespace and a number literal.
RawTokens == {"{", "}", "ok:true", ",", "log", "ws", "0"}

RawTexts == SeqsUpTo(RawTokens, MaxRaw)

InitExtract ==
  /\ InitBridge
  /\ oneItem = NonObj("null")
  /\ oneResult = NotNormalized
  /\ rawText \in RawTexts
  /\ document = NotExtracted

\* extractJSON(raw) called on the text.
Extract ==
  /\ document = NotExtracted
  /\ document' = extractJSON(rawText)
  /\ UNCHANGED <<bridgeVars, oneItem, oneResult, rawText>>

NextExtract == Extract

SpecExtract == InitExtract /\ [][NextExtract]_vars

\* The spans of a text that are a well-formed JSON object, brace to brace.
ObjectSpans(s) ==
  {sp \in (1..Len(s)) \X (1..Len(s)) :
     /\ sp[1] < sp[2]
     /\ s[sp[1]] = "{"
     /\ s[sp[2]] = "}"
     /\ JSONparse(SubSeq(s, sp[1], sp[2])).ok}

\* The text holds exactly one well-formed object; the rest is log text.
OneObjectInLogText(s) == Cardinality(ObjectSpans(s)) = 1

TheObjectSpan(s) == CHOOSE sp \in ObjectSpans(s) : TRUE

FewBodies ==
  { [isArray |-> FALSE,
     items |-> <<Obj(FromPairs(<< <<"id", Str(<<"a">>)>>, <<"lat", Num(Twelve)>>,
                                  <<"lon", Num(Three)>> >>))>>],
    [isArray |-> TRUE,
     items |-> <<Obj(FromPairs(<< <<"sub_id", Str(<<"b">>)>>, <<"latitude", Str(Twelve)>>,
                                  <<"lng", Num(Three)>>,
                                  <<"raio", Num(<<"1", "0", "0">>)>> >>))>>],
    [isArray |-> TRUE, items |-> <<>>] }

FewScripts ==
  { [out |-> <<"{", "ok:true", "}">>, code |-> Num(<<"0">>)],
    [out |-> <<"{", "error:boom", "}">>, code |-> Num(<<"1">>)],
    [out |-> <<"log">>, code |-> Num(<<"0">>)] }

\* Any interleaving of the events of the two requests.
NextConcurrent ==
  \E r \in Reqs :
    \/ ScanRejectedFrom(r, FewBodies)
    \/ ScanInvokeFrom(r, FewBodies, FewScripts)
    \/ StdoutData(r)
    \/ StderrData(r)
    \/ TimerFired(r)
    \/ ChildError(r)
    \/ ChildClose(r)

SpecConcurrent == Init /\ [][NextConcurrent]_vars

\* setTimeout and the queued 'error' of a failed spawn do run; nothing makes
\* a child write or exit.
SpecFair ==
  /\ Init
  /\ [][NextConcurrent]_vars
  /\ \A r \in Reqs : WF_vars(TimerFired(r)) /\ WF_vars(ChildError(r))

\* Everything one request owns.
ReqState(r) ==
  <<pc[r], body[r], payload[r], child[r], script[r], stdout[r], stderr[r], timer[r],
    settled[r], responses[r], spawns[r], kills[r], stdin[r], stdinEnded[r], errored[r],
    closeCode[r]>>

\* What the claims compare of a response: status, ok, error, data.
Verdict(resp) == <<resp.status, resp.ok, resp.error, resp.data>>

\* C14: two invocations with the same payload, the same output, the same exit
\* and the same timer and spawn events, whatever each child wrote to its
\* diagnostics stream, are answered with the same status, ok flag, error
\* message and data.
C14_StderrNeverDecides ==
  \A r1, r2 \in Reqs :
    (/\ pc[r1] = "responded" /\ pc[r2] = "responded"
     /\ spawns[r1] = 1 /\ spawns[r2] = 1
     /\ payload[r1] = payload[r2]
     /\ stdout[r1] = stdout[r2]
     /\ closeCode[r1] = closeCode[r2]
     /\ child[r1] = child[r2]
     /\ timer[r1] = timer[r2]
     /\ errored[r1] = errored[r2])
      => /\ Len(responses[r1]) = 1
         /\ Len(responses[r2]) = 1
         /\ Verdict(TheResponse(r1)) = Verdict(TheResponse(r2))

\* Two invocations closed in time on the same success document; one child
\* wrote diagnostics, the other none, and both are answered 200.
C14_Witness ==
  /\ ClosedInTime(1) /\ ClosedInTime(2)
  /\ payload[1] = payload[2]
  /\ stdout[1] = stdout[2]
  /\ closeCode[1] = closeCode[2]
  /\ stderr[1] # stderr[2]
  /\ TheResponse(1).status = 200
  /\ TheResponse(2).status = 200

\* The settlement that the events of request r alone decide.
OwnSettlement(r) ==
  IF errored[r] THEN Rejected(SpawnError)
  ELSE IF timer[r] = "fired" THEN TimeoutRejection
  ELSE CloseSettlement(closeCode[r], stdout[r], stderr[r])

\* Output s is the beginning of output t.
IsPrefix(s, t) == Len(s) <= Len(t) /\ SubSeq(t, 1, Len(s)) = s

\* C15: under every interleaving of two requests, the response of a request
\* that reached the worker is the one its own child's output, exit code,
\* 'error' and timer decide; its buffer holds only what its own child wrote;
\* a step of one request leaves everything the other owns untouched, and a
\* kill reaches a child only from its own armed timer.
C15_RequestsAreIndependent ==
  /\ [](\A r \in Reqs :
          /\ IsPrefix(stdout[r], script[r].out)
          /\ (pc[r] = "responded" /\ spawns[r] = 1) =>
               /\ Len(responses[r]) = 1
               /\ TheResponse(r) = ResponseFor(OwnSettlement(r)))
  /\ [][/\ \A r1, r2 \in Reqs :
             (ReqState(r1)' # ReqState(r1) /\ r1 # r2) => ReqState(r2)' = ReqState(r2)
        /\ \A r \in Reqs :
             (child'[r] = "killed" /\ child[r] # "killed") =>
                timer[r] = "armed" /\ timer'[r] = "fired"]_vars

\* One request has timed out, its child killed and not yet closed, while the
\* other, started before that, closed in time and was answered 200.
C15_Witness ==
  \E r1, r2 \in Reqs :
    /\ r1 # r2
    /\ timer[r1] = "fired"
    /\ child[r1] = "killed"
    /\ stdout[r1] # <<>>
    /\ ClosedInTime(r2)
    /\ stdout[r2] # stdout[r1]
    /\ TheResponse(r2).status = 200

\* C18: under fairness of the timer and of the 'error' event, every request
\* suspended at the await of runPython is eventually answered, and the answer
\* is the success, the failure or the TIMEOUT its invocation settled with;
\* no output and no exit of the child is needed.
C18_EveryInvocationIsAnswered ==
  /\ \A r \in Reqs : (pc[r] = "awaiting") ~> (pc[r] = "responded")
  /\ [](\A r \in Reqs :
          (pc[r] = "responded" /\ spawns[r] = 1) =>
             settled[r].kind \in {"resolved", "rejected"} /\ Len(responses[r]) = 1)

\* Answered by the timeout alone: the child wrote nothing and has not exited.
C18_Witness ==
  \E r \in Reqs :
    /\ pc[r] = "responded"
    /\ timer[r] = "fired"
    /\ child[r] = "killed"
    /\ stdout[r] = <<>>
    /\ stderr[r] = <<>>
    /\ closeCode[r] = Undef

====
